---- MODULE Spec2Model ----
(***************************************************************************)
(* A model of check_prices.py (Nova-Spectre/DropNotifier): the price       *)
(* normalizer, the site extraction engine, the fetch orchestrator          *)
(* get_price_with_context and the check-run controller run_price_check.    *)
(*                                                                         *)
(* Text is a sequence of one-character strings.  Python's None is the      *)
(* token NoneTok (for text) or NoPrice (for a number).  A float is a       *)
(* decimal [m, e] standing for m / 10^e, kept with no trailing zero in     *)
(* its fraction, so that equal numbers are equal records.                  *)
(***************************************************************************)
EXTENDS Integers, Sequences, FiniteSets, TLC

\* ------------------------------------------------------------------ bounds

\* The longest list of active items the store returns to one run.
MaxItems == 2

\* ------------------------------------------------------- program constants

\* while attempt < 2
MaxAttempts == 2

\* sanitize_filename: [:240]
FnameCap == 240

\* ------------------------------------------------------------------- text

\* Python's None where a string is expected.
NoneTok == <<"None">>

\* Python's None where a number is expected.
NoPrice == [m |-> -1, e |-> 0]

\* The one character U+20B9 (the rupee sign).
RUPEE == "RUPEE"

Digits == {"0", "1", "2", "3", "4", "5", "6", "7", "8", "9"}

Letters ==
  {"a", "b", "c", "d", "e", "f", "g", "h", "i", "j", "k", "l", "m", "n", "o",
   "p", "q", "r", "s", "t", "u", "v", "w", "x", "y", "z", "A", "B", "C", "D",
   "E", "F", "G", "H", "I", "J", "K", "L", "M", "N", "O", "P", "Q", "R", "S",
   "T", "U", "V", "W", "X", "Y", "Z"}

DigitVal(c) ==
  CASE c = "0" -> 0 [] c = "1" -> 1 [] c = "2" -> 2 [] c = "3" -> 3
    [] c = "4" -> 4 [] c = "5" -> 5 [] c = "6" -> 6 [] c = "7" -> 7
    [] c = "8" -> 8 [] c = "9" -> 9

Min(a, b) == IF a <= b THEN a ELSE b

\* Python truthiness of an optional string: None and "" are falsy.
Falsy(s) == s = NoneTok \/ s = <<>>

\* The characters of s that lie in the set keep, in order.
Keep(s, keep) == SelectSeq(s, LAMBDA c : c \in keep)

\* s.count(c) for a single character c.
Count(s, c) == Len(SelectSeq(s, LAMBDA d : d = c))

\* Whether pat occurs in s at position i.
MatchAt(s, pat, i) ==
  /\ i + Len(pat) - 1 <= Len(s)
  /\ \A k \in 1..Len(pat) : s[i + k - 1] = pat[k]

RECURSIVE ReplaceFrom(_, _, _, _)
ReplaceFrom(s, pat, rep, i) ==
  IF i > Len(s) THEN <<>>
  ELSE IF MatchAt(s, pat, i)
       THEN rep \o ReplaceFrom(s, pat, rep, i + Len(pat))
       ELSE <<s[i]>> \o ReplaceFrom(s, pat, rep, i + 1)

\* str.replace(pat, rep) for a non-empty pat: leftmost, non-overlapping.
Replace(s, pat, rep) == ReplaceFrom(s, pat, rep, 1)

RECURSIVE LStrip(_)
LStrip(s) == IF s # <<>> /\ Head(s) = " " THEN LStrip(Tail(s)) ELSE s

RECURSIVE RStrip(_)
RStrip(s) ==
  IF s # <<>> /\ s[Len(s)] = " " THEN RStrip(SubSeq(s, 1, Len(s) - 1)) ELSE s

\* str.strip()
Strip(s) == RStrip(LStrip(s))

\* --------------------------------------------------------- sanitize_filename

SafeChars == Digits \cup Letters \cup {"-", "_", "."}

\* re.sub(r"[^0-9A-Za-z-_.]", "_", s)[:240]
sanitize_filename(s) ==
  LET t == [i \in 1..Len(s) |-> IF s[i] \in SafeChars THEN s[i] ELSE "_"]
  IN  SubSeq(t, 1, Min(Len(t), FnameCap))

\* The debug file's name for a failed extraction of url on site (a text):
\* parsed = url.replace("://", "_").replace("/", "_");
\* sanitize_filename(f"{site}_{parsed}") + ".html"
DebugFileName(site, url) ==
  LET parsed == Replace(Replace(url, <<":", "/", "/">>, <<"_">>), <<"/">>, <<"_">>)
  IN  sanitize_filename(site \o <<"_">> \o parsed) \o <<".", "h", "t", "m", "l">>

\* ----------------------------------------------------- normalize_price_string

\* A normalization that keeps digits and commas only: the period goes with
\* the rest.
normalize_price_string_no_period(price_raw) ==
  IF Falsy(price_raw) THEN NoneTok
  ELSE LET s1 == Replace(price_raw, <<RUPEE>>, <<>>)
           s2 == Replace(s1, <<"I", "N", "R">>, <<>>)
           s3 == Replace(s2, <<"M", "R", "P">>, <<>>)
           s4 == Keep(s3, Digits \cup {","})
           s6 == Replace(s4, <<",">>, <<>>)
       IN  IF s6 # <<>> THEN Strip(s6) ELSE NoneTok

normalize_price_string(price_raw) ==
  IF Falsy(price_raw) THEN NoneTok
  ELSE LET s1 == Replace(price_raw, <<RUPEE>>, <<>>)
           s2 == Replace(s1, <<"I", "N", "R">>, <<>>)
           s3 == Replace(s2, <<"M", "R", "P">>, <<>>)
           s4 == Keep(s3, Digits \cup {".", ","})
           s5 == IF Count(s4, ",") > 0 /\ Count(s4, ".") = 0
                 THEN Replace(s4, <<",">>, <<>>) ELSE s4
           s6 == Replace(s5, <<",">>, <<>>)
       IN  IF s6 # <<>> THEN Strip(s6) ELSE NoneTok

\* ------------------------------------------------------------------- float

RECURSIVE DigitsVal(_)
DigitsVal(s) ==
  IF s = <<>> THEN 0
  ELSE 10 * DigitsVal(SubSeq(s, 1, Len(s) - 1)) + DigitVal(s[Len(s)])

RECURSIVE DropTrailingZeros(_)
DropTrailingZeros(s) ==
  IF s # <<>> /\ s[Len(s)] = "0"
  THEN DropTrailingZeros(SubSeq(s, 1, Len(s) - 1)) ELSE s

\* Whether float(s) succeeds for a text of digits and periods: digits with at
\* most one period and at least one digit.
FloatOk(s) ==
  /\ s # NoneTok
  /\ \A i \in 1..Len(s) : s[i] \in Digits \cup {"."}
  /\ Count(s, ".") <= 1
  /\ Keep(s, Digits) # <<>>

\* float(s) when FloatOk(s): the decimal m / 10^e.
ToFloat(s) ==
  LET dot  == IF Count(s, ".") = 0 THEN Len(s) + 1
              ELSE CHOOSE i \in 1..Len(s) : s[i] = "."
      int  == SubSeq(s, 1, dot - 1)
      frac == DropTrailingZeros(SubSeq(s, dot + 1, Len(s)))
  IN  [m |-> DigitsVal(int \o frac), e |-> Len(frac)]

RECURSIVE Pow10(_)
Pow10(n) == IF n = 0 THEN 1 ELSE 10 * Pow10(n - 1)

\* a >= b for decimals.
DecGe(a, b) == a.m * Pow10(b.e) >= b.m * Pow10(a.e)

\* An integer as a decimal.
Dec(n) == [m |-> n, e |-> 0]

\* ----------------------------------------------------------- extract_price

Flipkart == <<"f", "l", "i", "p", "k", "a", "r", "t">>
Amazon == <<"a", "m", "a", "z", "o", "n">>
Reliance == <<"r", "e", "l", "i", "a", "n", "c", "e">>
Croma == <<"c", "r", "o", "m", "a">>

\* What page.evaluate does when the in-page script cannot run.
JsRaises == <<"raise">>

(***************************************************************************)
(* A rendered page, as far as extract_price reads it.  Each field is the   *)
(* text a selector, a regular expression or the in-page script would       *)
(* yield, or NoneTok when it matches nothing:                              *)
(*   el          .Nx9bqj.CxhGGd (flipkart) or div.product-price (reliance) *)
(*   whole, frac span.a-price-whole, span.a-price-fraction                 *)
(*   js          the value of the in-page script (or JsRaises)             *)
(*   rx          the first regular expression's capture on the markup      *)
(*   script_rx   the same on the script blocks, one by one                 *)
(*   dom         whether one of the five croma selectors matches           *)
(*   dom_value, dom_text   that element's value attribute and text         *)
(***************************************************************************)
BlankPage ==
  [el |-> NoneTok, whole |-> NoneTok, frac |-> NoneTok, js |-> NoneTok,
   rx |-> NoneTok, script_rx |-> NoneTok, dom |-> FALSE,
   dom_value |-> NoneTok, dom_text |-> NoneTok]

\* The first truthy of a and b (Python's a or b).
Or(a, b) == IF Falsy(a) THEN b ELSE a

\* A croma extraction that takes the regular expressions' capture before
\* the in-page script's value.
extract_croma_regex_first(html, has_page) ==
  LET rx_raw    == IF html.rx # NoneTok THEN html.rx ELSE html.script_rx
      js_raw    == IF Falsy(rx_raw)
                   THEN (IF has_page /\ html.js # JsRaises /\ ~Falsy(html.js)
                         THEN html.js ELSE NoneTok)
                   ELSE rx_raw
      dom_raw   == IF Falsy(js_raw)
                   THEN (IF html.dom
                         THEN Or(html.dom_value, Strip(html.dom_text))
                         ELSE NoneTok)
                   ELSE js_raw
  IN  dom_raw

extract_croma(html, has_page) ==
  LET js_raw    == IF has_page /\ html.js # JsRaises /\ ~Falsy(html.js)
                   THEN html.js ELSE NoneTok
      rx_raw    == IF Falsy(js_raw)
                   THEN (IF html.rx # NoneTok THEN html.rx ELSE html.script_rx)
                   ELSE js_raw
      dom_raw   == IF Falsy(rx_raw)
                   THEN (IF html.dom
                         THEN Or(html.dom_value, Strip(html.dom_text))
                         ELSE NoneTok)
                   ELSE rx_raw
  IN  dom_raw

\* An extraction that joins the amazon whole and fraction digits with no
\* period between them.
extract_price_joined(site, html, has_page) ==
  CASE site = Flipkart -> html.el
    [] site = Amazon ->
         IF html.whole # NoneTok
         THEN Keep(html.whole, Digits) \o
              (IF html.frac # NoneTok THEN Keep(html.frac, Digits)
               ELSE <<"0", "0">>)
         ELSE NoneTok
    [] site = Reliance ->
         IF html.el # NoneTok
         THEN Replace(Strip(html.el), <<"M", "R", "P">>, <<>>)
         ELSE NoneTok
    [] site = Croma -> extract_croma(html, has_page)
    [] OTHER -> NoneTok

extract_price(site, html, has_page) ==
  CASE site = Flipkart -> html.el
    [] site = Amazon ->
         IF html.whole # NoneTok
         THEN Keep(html.whole, Digits) \o <<".">> \o
              (IF html.frac # NoneTok THEN Keep(html.frac, Digits)
               ELSE <<"0", "0">>)
         ELSE NoneTok
    [] site = Reliance ->
         IF html.el # NoneTok
         THEN Replace(Strip(html.el), <<"M", "R", "P">>, <<>>)
         ELSE NoneTok
    [] site = Croma -> extract_croma(html, has_page)
    [] OTHER -> NoneTok

\* ------------------------------------------------------------ environment

\* The sites of the items the store holds.
Sites == {Croma, Amazon}

\* "h://a/b" and "h://a_b": two product URLs.
Url1 == <<"h", ":", "/", "/", "a", "/", "b">>
Url2 == <<"h", ":", "/", "/", "a", "_", "b">>
Urls == {Url1, Url2}

\* A missing target_price (None), or a number: one among the prices the
\* pages show, one above them all.
NoTarget == -1
Targets == {NoTarget, 2, 50000}

\* An amazon page whose span.a-price-whole reads "44" and whose
\* span.a-price-fraction reads "999".
Page44_999 ==
  [BlankPage EXCEPT !.whole = <<"4", "4">>, !.frac = <<"9", "9", "9">>]

\* The pages a navigation may show: one with no price anywhere, pages with
\* a price of 1 or 2 found by one rule or another, one whose price text
\* is unusable, and Page44_999.
PageWith(whole, frac, js, rx, dom_text) ==
  [BlankPage EXCEPT !.whole = whole, !.frac = frac, !.js = js, !.rx = rx,
                    !.dom = dom_text # NoneTok, !.dom_text = dom_text]

Pages ==
  {BlankPage,
   PageWith(<<"1">>, NoneTok, <<"1">>, <<"2">>, NoneTok),
   PageWith(<<"2">>, <<"0">>, JsRaises, <<"2">>, <<"1">>),
   PageWith(<<"1", ".">>, <<"0", "0">>, NoneTok, NoneTok, <<RUPEE, "1">>),
   PageWith(<<",">>, <<"-">>, NoneTok, NoneTok, <<"N", "/", "A">>),
   Page44_999}

(***************************************************************************)
(* What an awaited browser call may raise: a PlaywrightError whose message *)
(* holds ERR_PROXY_CONNECTION_FAILED, ERR_NETWORK_CHANGED or               *)
(* ERR_TUNNEL_CONNECTION_FAILED ("PENet"), any other PlaywrightError, a    *)
(* navigation timeout among them ("PEOther"), or another exception         *)
(* ("Other").                                                              *)
(***************************************************************************)
ExcKinds == {"PENet", "PEOther", "Other"}

\* What creating a context or a page may raise: nothing is fetched yet, so
\* no network error.
CreateExcKinds == {"PEOther", "Other"}

\* except PlaywrightError
IsPlaywrightError(k) == k \in {"PENet", "PEOther"}

\* "ERR_PROXY_CONNECTION_FAILED" in msg or "ERR_NETWORK_CHANGED" in msg or
\* "ERR_TUNNEL_CONNECTION_FAILED" in msg, in the except PlaywrightError branch
IsProxyNetworkError(k) == k = "PENet"

\* --------------------------------------------------------------- the state

(***************************************************************************)
(* The store and the alert channel are written, never read back, by a      *)
(* check: row and history are the store's view of the item being checked   *)
(* (its tracked_items row, and the price_history rows this run inserted    *)
(* for it), alerts the messages the check handed to send_slack.  The       *)
(* items come from the store one by one as the loop reaches them.          *)
(***************************************************************************)
VARIABLES
  pc,             \* where run_price_check (and the call it awaits) stands
  apify_proxy,    \* whether build_apify_proxy_settings() returned settings
  n_items,        \* len(items)
  browser_default,\* "none" (not launched), "open", "closed"
  browser_proxy,
  idx,            \* the position of item in items (0 before the loop)
  item,           \* the loop variable
  price,          \* run_price_check's price
  chan,           \* the browser get_price_with_context was given
  mode,           \* which call of it runs: "proxied", "direct", "fallback"
  attempt,        \* get_price_with_context's attempt
  ret,            \* what the last call of it returned or raised
  row,            \* the store's tracked_items row of item
  history,        \* the price_history rows inserted for item
  debug_dir,      \* debug_failures/: the (file name, url) pairs written
  sessions,       \* the contexts (with their pages) this item's check made
  outcomes,       \* how each attempt of the call in progress ended
  calls,          \* this item's calls of get_price_with_context, with results
  alerts,         \* the messages this item's check gave send_slack
  updates,        \* the tracked_items updates this item's check executed
  caught,         \* what this item's except Exception caught
  leaked,         \* whether an earlier check of this run left a context open
  checked,        \* the checks this run ended: the item's position, and
                  \* whether the item's except Exception ended it
  arg,            \* the argument of a function called on its own
  result          \* what that call returned

vars ==
  <<pc, apify_proxy, n_items, browser_default, browser_proxy, idx, item, price,
    chan, mode, attempt, ret, row, history, debug_dir, sessions, outcomes,
    calls, alerts, updates, caught, leaked, checked, arg, result>>

pure_vars == <<arg, result>>
store_vars == <<row, history>>
gp_vars == <<chan, mode, attempt, ret, sessions, outcomes, calls>>
log_vars == <<alerts, updates, caught>>
run_vars == <<apify_proxy, n_items, browser_default, browser_proxy, idx, item>>

\* Of an item, site, product_url and target_price are read at the head of
\* the loop body; "id" and "notified" are read where the check first uses
\* them ("unread" until then; "yes" or "no" after).
NoItem ==
  [site |-> <<>>, product_url |-> <<>>, target_price |-> NoTarget,
   has_id |-> "unread", notified |-> "unread"]

NoRow == [last_price |-> NoPrice, last_checked_at |-> 0, notified |-> FALSE]

NoRet == [kind |-> "none", price |-> NoPrice, exc |-> "none"]
Returned(p) == [kind |-> "value", price |-> p, exc |-> "none"]
Raised(k) == [kind |-> "raise", price |-> NoPrice, exc |-> k]

Init ==
  /\ pc = "start"
  /\ apify_proxy \in BOOLEAN
  /\ n_items \in 0..MaxItems
  /\ browser_default = "none"
  /\ browser_proxy = "none"
  /\ idx = 0
  /\ item = NoItem
  /\ price = NoPrice
  /\ chan = "none"
  /\ mode = "none"
  /\ attempt = 0
  /\ ret = NoRet
  /\ row = NoRow
  /\ history = <<>>
  /\ debug_dir = {}
  /\ sessions = <<>>
  /\ outcomes = <<>>
  /\ calls = <<>>
  /\ alerts = <<>>
  /\ updates = <<>>
  /\ caught = <<>>
  /\ leaked = FALSE
  /\ checked = <<>>
  /\ arg = NoneTok
  /\ result = NoneTok

\* ------------------------------------------------- get_price_with_context

\* A context as browser.new_context makes it; its page is "none" until
\* context.new_page() is awaited, then "open", "closed", or "raised" when
\* new_page raised.
NewSession(browser) == [browser |-> browser, ctx |-> "open", page |-> "none"]

\* page.close() and context.close(), as the success path and both except
\* branches call them.
CloseSession(s) ==
  [s EXCEPT !.ctx = "closed", !.page = IF @ = "open" THEN "closed" ELSE @]

SetLast(seq, v) == [seq EXCEPT ![Len(seq)] = v]
Last(seq) == seq[Len(seq)]

\* A loop test that lets a third attempt through.
MayAttempt_thrice(n) == n <= MaxAttempts

\* while attempt < 2
MayAttempt(n) == n < MaxAttempts

\* while attempt < 2: attempt += 1; context = await create_context_for(...)
\* or, the loop over, return None.  create_context_for raises out of the
\* function: browser.new_context before any context exists, or (croma)
\* add_stealth_shims with the new context open.
GP_Loop ==
  /\ pc = "gp_loop"
  /\ IF MayAttempt(attempt)
     THEN /\ attempt' = attempt + 1
          /\ \/ /\ sessions' = Append(sessions, NewSession(chan))
                /\ pc' = "gp_page"
                /\ ret' = ret
             \/ \E k \in CreateExcKinds :
                  /\ sessions' = sessions
                  /\ ret' = Raised(k)
                  /\ pc' = "gp_ret"
             \/ \E k \in CreateExcKinds :
                  /\ item.site = Croma
                  /\ sessions' = Append(sessions, NewSession(chan))
                  /\ ret' = Raised(k)
                  /\ pc' = "gp_ret"
     ELSE /\ ret' = Returned(NoPrice)
          /\ pc' = "gp_ret"
          /\ UNCHANGED <<attempt, sessions>>
  /\ UNCHANGED pure_vars
  /\ UNCHANGED <<store_vars, debug_dir, run_vars, price, chan, mode, outcomes,
                 calls, log_vars, leaked, checked>>

\* page = await context.new_page(): outside the try, so what it raises
\* leaves the function with the context open.
GP_NewPage ==
  /\ pc = "gp_page"
  /\ \/ /\ sessions' = SetLast(sessions, [Last(sessions) EXCEPT !.page = "open"])
        /\ pc' = "gp_try"
        /\ ret' = ret
     \/ \E k \in CreateExcKinds :
          /\ sessions' = SetLast(sessions, [Last(sessions) EXCEPT !.page = "raised"])
          /\ ret' = Raised(k)
          /\ pc' = "gp_ret"
  /\ UNCHANGED pure_vars
  /\ UNCHANGED <<store_vars, debug_dir, run_vars, price, chan, mode, attempt,
                 outcomes, calls, log_vars, leaked, checked>>

\* How a pass of the try body ends when an awaited call raises k: the
\* except PlaywrightError branch re-raises a proxy or network error, every
\* other exception is an attempt that failed.
ExcOutcome(k) ==
  IF IsPlaywrightError(k) /\ IsProxyNetworkError(k) THEN "neterr" ELSE "exc"

\* How a pass ends once extract_price gave the truthy price_raw:
\* normalize_price_string, then float(price_str), whose ValueError is one
\* more unexpected exception.
RawOutcome(price_raw) ==
  LET price_str == normalize_price_string(price_raw)
  IN  IF Falsy(price_str) THEN "normfail"
      ELSE IF ~FloatOk(price_str) THEN "exc"
      ELSE "found"

\* return float(price_str)
RawPrice(price_raw) ==
  IF RawOutcome(price_raw) = "found"
  THEN ToFloat(normalize_price_string(price_raw)) ELSE NoPrice

\* if not price_raw: ... file_path.write_text(html, encoding="utf-8")
Dumps(kind) == kind = "notfound"

\* The end of a pass of the try body: the debug file of a pass that writes
\* one (write_ok: the write did not raise), the session closed, and the
\* return, the raise (of exc) or the continue.
EndAttempt(kind, write_ok, p, exc) ==
  LET dumped == Dumps(kind) /\ write_ok
  IN  /\ sessions' = SetLast(sessions, CloseSession(Last(sessions)))
      /\ outcomes' =
           Append(outcomes, [kind |-> kind, dumps |-> IF dumped THEN 1 ELSE 0])
      /\ debug_dir' =
           IF dumped
           THEN debug_dir \cup
                  {<<DebugFileName(item.site, item.product_url), item.product_url>>}
           ELSE debug_dir
      /\ CASE kind = "found" -> ret' = Returned(p) /\ pc' = "gp_ret"
           [] kind = "neterr" -> ret' = Raised(exc) /\ pc' = "gp_ret"
           [] OTHER -> ret' = ret /\ pc' = "gp_loop"

\* The try body and its except branches: an awaited call raises, or the
\* page is read (a second time when the first read holds no price).
GP_Try ==
  /\ pc = "gp_try"
  /\ \/ \E exc \in ExcKinds : EndAttempt(ExcOutcome(exc), TRUE, NoPrice, exc)
     \/ \E html \in Pages :
          LET raw1 == extract_price(item.site, html, TRUE)
          IN  /\ ~Falsy(raw1)
              /\ EndAttempt(RawOutcome(raw1), TRUE, RawPrice(raw1), "ok")
     \/ \E html \in Pages, html2 \in Pages :
          LET raw1 == extract_price(item.site, html, TRUE)
              raw2 == extract_price(item.site, html2, TRUE)
          IN  /\ Falsy(raw1)
              /\ ~Falsy(raw2)
              /\ EndAttempt(RawOutcome(raw2), TRUE, RawPrice(raw2), "ok")
     \/ \E html \in Pages, html2 \in Pages, write_ok \in BOOLEAN :
          /\ Falsy(extract_price(item.site, html, TRUE))
          /\ Falsy(extract_price(item.site, html2, TRUE))
          /\ EndAttempt("notfound", write_ok, NoPrice, "ok")
  /\ UNCHANGED pure_vars
  /\ UNCHANGED <<store_vars, run_vars, price, chan, mode, attempt, calls,
                 log_vars, leaked, checked>>

\* --------------------------------------------------------- run_price_check

\* resp = supabase.table("tracked_items").select("*").eq("active", True)
\* .execute(); if not items: return
FetchItems ==
  /\ pc = "start"
  /\ pc' = IF n_items = 0 THEN "done" ELSE "launch_default"
  /\ UNCHANGED pure_vars
  /\ UNCHANGED <<store_vars, debug_dir, run_vars, price, gp_vars, log_vars,
                 leaked, checked>>

\* browser_default = await _launch_browser(False); on an exception, return
LaunchDefault ==
  /\ pc = "launch_default"
  /\ \/ /\ browser_default' = "open"
        /\ pc' = "launch_proxy"
     \/ /\ browser_default' = browser_default
        /\ pc' = "done"
  /\ UNCHANGED pure_vars
  /\ UNCHANGED <<store_vars, debug_dir, apify_proxy, n_items, browser_proxy,
                 idx, item, price, gp_vars, log_vars, leaked, checked>>

\* if apify_proxy: browser_proxy = await _launch_browser(True), None when
\* the launch raises
LaunchProxy ==
  /\ pc = "launch_proxy"
  /\ \/ /\ apify_proxy
        /\ browser_proxy' = "open"
     \/ /\ browser_proxy' = browser_proxy
  /\ pc' = "for"
  /\ UNCHANGED pure_vars
  /\ UNCHANGED <<store_vars, debug_dir, apify_proxy, n_items, browser_default,
                 idx, item, price, gp_vars, log_vars, leaked, checked>>

\* The items the store may hold, as the head of the loop body reads them;
\* site is the lowered text.
Items ==
  [site : Sites, product_url : Urls, target_price : Targets,
   has_id : {"unread"}, notified : {"unread"}]

YesNo == {"yes", "no"}

\* The store's row of an item whose notified column is nf, before its check.
RowOf(nf) ==
  [last_price |-> NoPrice, last_checked_at |-> 0, notified |-> nf = "yes"]

OpenContexts(ss) == Len(SelectSeq(ss, LAMBDA s : s.ctx = "open"))

\* for item in items: the next item, or the loop's end.  What the check
\* before it held in its locals is gone.
ForNext ==
  /\ pc = "for"
  /\ IF idx < n_items
     THEN /\ idx' = idx + 1
          /\ item' \in Items
          /\ row' = NoRow
          /\ pc' = "call"
     ELSE /\ pc' = "finally"
          /\ row' = NoRow
          /\ item' = NoItem
          /\ idx' = idx
  /\ leaked' = (leaked \/ OpenContexts(sessions) > 0)
  /\ history' = <<>>
  /\ price' = NoPrice
  /\ chan' = "none"
  /\ mode' = "none"
  /\ attempt' = 0
  /\ ret' = NoRet
  /\ sessions' = <<>>
  /\ outcomes' = <<>>
  /\ calls' = <<>>
  /\ alerts' = <<>>
  /\ updates' = <<>>
  /\ caught' = <<>>
  /\ UNCHANGED pure_vars
  /\ UNCHANGED <<debug_dir, apify_proxy, n_items, browser_default,
                 browser_proxy, checked>>

\* The proxied browser for every site, when there is one.
UseProxy_any_site(site, bproxy) == bproxy # "none"

\* if site == "croma" and browser_proxy
UseProxy(site, bproxy) == site = Croma /\ bproxy # "none"

\* price = None; the first call of get_price_with_context
Call ==
  /\ pc = "call"
  /\ price' = NoPrice
  /\ IF UseProxy(item.site, browser_proxy)
     THEN chan' = "proxy" /\ mode' = "proxied"
     ELSE chan' = "default" /\ mode' = "direct"
  /\ attempt' = 0
  /\ ret' = NoRet
  /\ pc' = "gp_loop"
  /\ UNCHANGED pure_vars
  /\ UNCHANGED <<store_vars, debug_dir, run_vars, sessions, outcomes, calls,
                 log_vars, leaked, checked>>

\* A proxied call with no handler around it.
FallsBack_never(m, k) == m # m

\* except PlaywrightError as pe, around the proxied call alone
FallsBack(m, k) == m = "proxied" /\ IsPlaywrightError(k)

\* except Exception as e: send_slack(error_msg)
ExceptAlerts == <<"critical">>

\* A handler that lets the exception end the loop, as a try around the
\* whole for statement would.
AfterExcept_halts == "finally"

\* Where the item's except Exception leaves control: the body of the for
\* loop is over, the loop goes on.
AfterExcept == "for"

\* The end of item's check, as checked records it.
Ended(raised) == Append(checked, [idx |-> idx, raised |-> raised])

\* The call returns to run_price_check: its value becomes price; a
\* PlaywrightError of the proxied call starts the call on browser_default;
\* anything else raised reaches the item's except Exception.
CallReturns ==
  /\ pc = "gp_ret"
  /\ calls' = Append(calls, [browser |-> chan, mode |-> mode, ret |-> ret])
  /\ CASE ret.kind = "value" ->
            /\ price' = ret.price
            /\ pc' = "handle"
            /\ UNCHANGED <<chan, mode, attempt, outcomes, alerts, caught,
                           checked>>
       [] ret.kind = "raise" /\ FallsBack(mode, ret.exc) ->
            /\ chan' = "default"
            /\ mode' = "fallback"
            /\ attempt' = 0
            /\ outcomes' = <<>>
            /\ pc' = "gp_loop"
            /\ UNCHANGED <<price, alerts, caught, checked>>
       [] OTHER ->
            /\ alerts' = alerts \o ExceptAlerts
            /\ caught' = Append(caught, "fetch")
            /\ checked' = Ended(TRUE)
            /\ pc' = AfterExcept
            /\ UNCHANGED <<price, chan, mode, attempt, outcomes>>
  /\ UNCHANGED pure_vars
  /\ UNCHANGED <<store_vars, debug_dir, run_vars, ret, sessions, updates,
                 leaked>>

\* item["id"] raises KeyError when the item has no id; a store call may
\* raise whatever the store raises.
StoreCallOk(has_id, ok) == has_id = "yes" /\ ok

\* A failure row that records a price of 0 in place of null.
NullRow_zero == [m |-> 0, e |-> 0]

\* "price": None, the price of the row a failed check inserts
NullRow == NoPrice

\* A failure branch that also stamps the item's last_checked_at.
HandleNone_stamps ==
  /\ pc = "handle"
  /\ price = NoPrice
  /\ \E id \in YesNo, ok \in BOOLEAN :
       /\ item' = [item EXCEPT !.has_id = id]
       /\ IF StoreCallOk(id, ok)
          THEN /\ history' = Append(history, NullRow)
               /\ row' = [row EXCEPT !.last_checked_at = 1]
               /\ updates' = Append(updates, "price")
               /\ alerts' = Append(alerts, "no_price")
               /\ caught' = caught
               /\ checked' = Ended(FALSE)
               /\ pc' = "for"
          ELSE /\ history' = history
               /\ row' = row
               /\ updates' = updates
               /\ alerts' = Append(alerts, "no_price") \o ExceptAlerts
               /\ caught' = Append(caught, "insert")
               /\ checked' = Ended(TRUE)
               /\ pc' = AfterExcept
  /\ UNCHANGED pure_vars
  /\ UNCHANGED <<debug_dir, apify_proxy, n_items, browser_default,
                 browser_proxy, idx, price, gp_vars, leaked>>

\* if price is None: the failure alert, then the null row; continue
HandleNone ==
  /\ pc = "handle"
  /\ price = NoPrice
  /\ \E id \in YesNo, ok \in BOOLEAN :
       /\ item' = [item EXCEPT !.has_id = id]
       /\ IF StoreCallOk(id, ok)
          THEN /\ history' = Append(history, NullRow)
               /\ alerts' = Append(alerts, "no_price")
               /\ caught' = caught
               /\ checked' = Ended(FALSE)
               /\ pc' = "for"
          ELSE /\ history' = history
               /\ alerts' = Append(alerts, "no_price") \o ExceptAlerts
               /\ caught' = Append(caught, "insert")
               /\ checked' = Ended(TRUE)
               /\ pc' = AfterExcept
  /\ UNCHANGED pure_vars
  /\ UNCHANGED <<row, debug_dir, apify_proxy, n_items, browser_default,
                 browser_proxy, idx, price, gp_vars, updates, leaked>>

\* target_price = item.get("target_price") or 0 ... (target_price or 0)
TargetOr0(t) == IF t = NoTarget THEN 0 ELSE t

\* The comparison with > in place of >=: a price equal to the target is
\* taken for a drop.
PriceOk_strict(p, t) == DecGe(p, Dec(TargetOr0(t))) /\ p # Dec(TargetOr0(t))

\* if price >= (target_price or 0): "Price OK", continue
PriceOk(p, t) == DecGe(p, Dec(TargetOr0(t)))

\* A notification made whatever the notified flag says.
ShouldNotify_always(nf) == nf = nf

\* if not item.get("notified")
ShouldNotify(nf) == nf # "yes"

\* str(n) of a natural number.
DigitChar(d) == CHOOSE c \in Digits : DigitVal(c) = d

RECURSIVE IntStr(_)
IntStr(n) ==
  IF n < 10 THEN <<DigitChar(n)>>
  ELSE IntStr(n \div 10) \o <<DigitChar(n % 10)>>

\* s with zeros put before it until it has n characters.
RECURSIVE ZeroPad(_, _)
ZeroPad(s, n) == IF Len(s) >= n THEN s ELSE ZeroPad(<<"0">> \o s, n)

\* str(p) of the float p, as an f-string formats it: the integer part, a
\* period, and the fraction's digits ("0" when there are none).
FloatStr(p) ==
  IntStr(p.m \div Pow10(p.e)) \o <<".">> \o
  (IF p.e = 0 THEN <<"0">> ELSE ZeroPad(IntStr(p.m % Pow10(p.e)), p.e))

\* The money bag that opens the price-drop message.
MONEYBAG == "MONEYBAG"

\* msg of the price-drop alert: site, url, price and target_price in an
\* f-string.
DropAlertText(site, url, p, target_price) ==
  <<MONEYBAG>> \o <<" ", "P", "R", "I", "C", "E", " ", "D", "R", "O", "P", " ", "A", "L", "E", "R", "T", "!", "\n">> \o
  <<"S", "i", "t", "e", ":", " ", "*">> \o site \o <<"*", "\n">> \o
  <<"U", "R", "L", ":", " ">> \o url \o <<"\n">> \o
  <<"C", "u", "r", "r", "e", "n", "t", " ", "P", "r", "i", "c", "e", ":", " ">> \o <<RUPEE>> \o FloatStr(p) \o <<"\n">> \o
  <<"T", "a", "r", "g", "e", "t", " ", "P", "r", "i", "c", "e", ":", " ">> \o <<RUPEE>> \o IntStr(target_price)

\* The update of last_price and last_checked_at (now: 1).
PriceUpdate(r, p) == [r EXCEPT !.last_price = p, !.last_checked_at = 1]

\* The update {"notified": True}.
NotifiedUpdate(r) == [r EXCEPT !.notified = TRUE]

\* A check with a price: the store calls it makes, in order, up to the
\* first that raises (fail names it; "none": none raises).
HandleValue ==
  /\ pc = "handle"
  /\ price # NoPrice
  /\ \E id \in YesNo, nf \in YesNo,
        fail \in {"none", "update_price", "insert", "update_notified"} :
       LET ok1    == StoreCallOk(id, fail # "update_price")
           ok2    == ok1 /\ fail # "insert"
           drop   == ok2 /\ ~PriceOk(price, item.target_price) /\ ShouldNotify(nf)
           ok3    == drop /\ fail # "update_notified"
           raised == ~ok1 \/ ~ok2 \/ (drop /\ ~ok3)
           row1   == IF ok1 THEN PriceUpdate(RowOf(nf), price) ELSE RowOf(nf)
       IN  /\ item' = [item EXCEPT !.has_id = id, !.notified = nf]
           /\ row' = IF ok3 THEN NotifiedUpdate(row1) ELSE row1
           /\ history' = IF ok2 THEN Append(history, price) ELSE history
           /\ updates' = updates \o (IF ok1 THEN <<"price">> ELSE <<>>)
                                 \o (IF ok3 THEN <<"notified">> ELSE <<>>)
           /\ alerts' = alerts \o (IF drop THEN <<"price_drop">> ELSE <<>>)
                               \o (IF raised THEN ExceptAlerts ELSE <<>>)
           /\ caught' = caught \o
                (IF ~ok1 THEN <<"update_price">>
                 ELSE IF ~ok2 THEN <<"insert">>
                 ELSE IF drop /\ ~ok3 THEN <<"update_notified">>
                 ELSE <<>>)
           /\ checked' = Ended(raised)
           /\ pc' = IF raised THEN AfterExcept ELSE "for"
  /\ UNCHANGED pure_vars
  /\ UNCHANGED <<debug_dir, apify_proxy, n_items, browser_default,
                 browser_proxy, idx, price, gp_vars, leaked>>

\* A cleanup with both closes in one try: when the proxied browser's close
\* raises, the direct browser's close is never called.
Finally_one_try ==
  /\ pc = "finally"
  /\ browser_proxy' = IF browser_proxy # "none" THEN "closed" ELSE browser_proxy
  /\ \E close_raises \in BOOLEAN :
       browser_default' =
         IF browser_default # "none" /\ ~(close_raises /\ browser_proxy # "none")
         THEN "closed" ELSE browser_default
  /\ pc' = "done"
  /\ UNCHANGED pure_vars
  /\ UNCHANGED <<store_vars, debug_dir, apify_proxy, n_items, idx, item, price,
                 gp_vars, log_vars, leaked, checked>>

\* finally: browser_proxy.close() if there is one, then
\* browser_default.close(), each in its own try
Finally ==
  /\ pc = "finally"
  /\ browser_proxy' = IF browser_proxy # "none" THEN "closed" ELSE browser_proxy
  /\ browser_default' = IF browser_default # "none" THEN "closed" ELSE browser_default
  /\ pc' = "done"
  /\ UNCHANGED pure_vars
  /\ UNCHANGED <<store_vars, debug_dir, apify_proxy, n_items, idx, item, price,
                 gp_vars, log_vars, leaked, checked>>

Next ==
  \/ FetchItems
  \/ LaunchDefault
  \/ LaunchProxy
  \/ ForNext
  \/ Call
  \/ GP_Loop
  \/ GP_NewPage
  \/ GP_Try
  \/ CallReturns
  \/ HandleNone
  \/ HandleValue
  \/ Finally

Spec == Init /\ [][Next]_vars

\* The run is one coroutine that asyncio.run drives to its end: a step that
\* can be taken is taken.
FairSpec == Spec /\ WF_vars(Next)

\* ------------------------------------------ extract_price, called alone

\* The tiers a croma extraction runs, in order: "js" is page.evaluate (if
\* page), "regex" the block under the first "if not price_raw", "dom" the
\* block under the last.
croma_tiers(html, has_page) ==
  LET js_raw == IF has_page /\ html.js # JsRaises /\ ~Falsy(html.js)
                THEN html.js ELSE NoneTok
      rx_raw == IF Falsy(js_raw)
                THEN (IF html.rx # NoneTok THEN html.rx ELSE html.script_rx)
                ELSE js_raw
  IN  (IF has_page THEN <<"js">> ELSE <<>>) \o
      (IF Falsy(js_raw) THEN <<"regex">> ELSE <<>>) \o
      (IF Falsy(rx_raw) THEN <<"dom">> ELSE <<>>)

\* Croma pages: what the script, the regular expressions (on the markup,
\* on the script blocks) and the selectors would each find, all different.
CromaPages ==
  [el : {NoneTok}, whole : {NoneTok}, frac : {NoneTok},
   js : {NoneTok, <<>>, JsRaises, <<"1">>},
   rx : {NoneTok, <<"2">>},
   script_rx : {NoneTok, <<"3">>},
   dom : BOOLEAN,
   dom_value : {NoneTok, <<"4">>},
   dom_text : {<<>>, <<" ", "5">>}]

\* No run is in progress.
Idle ==
  /\ apify_proxy = FALSE
  /\ n_items = 0
  /\ browser_default = "none"
  /\ browser_proxy = "none"
  /\ idx = 0
  /\ item = NoItem
  /\ price = NoPrice
  /\ chan = "none"
  /\ mode = "none"
  /\ attempt = 0
  /\ ret = NoRet
  /\ row = NoRow
  /\ history = <<>>
  /\ debug_dir = {}
  /\ sessions = <<>>
  /\ outcomes = <<>>
  /\ calls = <<>>
  /\ alerts = <<>>
  /\ updates = <<>>
  /\ caught = <<>>
  /\ leaked = FALSE
  /\ checked = <<>>

run_state == <<store_vars, debug_dir, run_vars, price, gp_vars, log_vars,
               leaked, checked>>

ExtractInit ==
  /\ Idle
  /\ pc = "extract_price"
  /\ arg \in [site : {Croma, Amazon}, html : CromaPages, page : BOOLEAN]
  /\ result = NoneTok

\* price_raw = await extract_price(site, html, page=page)
ExtractCall ==
  /\ pc = "extract_price"
  /\ result' =
       [price_raw |-> extract_price(arg.site, arg.html, arg.page),
        tiers |-> IF arg.site = Croma THEN croma_tiers(arg.html, arg.page)
                  ELSE <<>>]
  /\ pc' = "extracted"
  /\ UNCHANGED <<run_state, arg>>

ExtractSpec == ExtractInit /\ [][ExtractCall]_vars

\* --------------------------------- normalize_price_string, called alone

\* Bound: the pieces of a token given to normalize_price_string.
MaxPieces == 3

\* What a token is made of: digits, a comma, a period, the currency
\* markers the function names, a letter, a space.
Pieces ==
  {<<"4">>, <<"0">>, <<",">>, <<".">>, <<RUPEE>>, <<"I", "N", "R">>,
   <<"M", "R", "P">>, <<"x">>, <<" ">>}

RECURSIVE Flat(_)
Flat(ps) == IF ps = <<>> THEN <<>> ELSE Head(ps) \o Flat(Tail(ps))

Tokens ==
  {Flat(ps) : ps \in UNION {[1..n -> Pieces] : n \in 0..MaxPieces}}

\* Price texts: a currency marker or none, digits with thousands commas,
\* a two-digit fraction or none.
Markers == {<<>>, <<RUPEE>>, <<"I", "N", "R">>, <<"M", "R", "P">>}
Groups ==
  {<<"4", "4", ",", "9", "9", "9">>, <<"4", "4", "9", "9", "9">>, <<"7">>,
   <<"1", ",", "0", "0", "0", ",", "0", "0", "0">>}
Fractions == {<<>>, <<".", "0", "0">>, <<".", "5", "9">>}
PriceTokens == {m \o g \o f : m \in Markers, g \in Groups, f \in Fractions}

NormInit ==
  /\ Idle
  /\ pc = "normalize_price_string"
  /\ arg \in Tokens \cup PriceTokens \cup {NoneTok}
  /\ result = NoneTok

\* price_str = normalize_price_string(price_raw)
NormCall ==
  /\ pc = "normalize_price_string"
  /\ result' = normalize_price_string(arg)
  /\ pc' = "normalized"
  /\ UNCHANGED <<run_state, arg>>

NormSpec == NormInit /\ [][NormCall]_vars

\* ------------------------------------------------------------- the claims

\* The check of item idx is over and what it did is still in the state.
CheckDone == pc = "for" /\ idx > 0

Has(seq, v) == \E i \in 1..Len(seq) : seq[i] = v
CountOf(seq, v) == Len(SelectSeq(seq, LAMBDA x : x = v))

\* No store call of the check raised and the item had its id.
StoreCallsOk == \A i \in 1..Len(caught) : caught[i] = "fetch"

\* price < (target_price or 0), by the numbers.
StrictlyBelowTarget ==
  /\ price # NoPrice
  /\ price.m < TargetOr0(item.target_price) * Pow10(price.e)

\* Every call of get_price_with_context of the check ended in one of the
\* ways C1 lists: it returned (a price, or None after two failed attempts)
\* or it raised a recognized proxy or network error.
ListedFetchOutcome ==
  \A i \in 1..Len(calls) :
    calls[i].ret.kind = "value" \/ calls[i].ret = Raised("PENet")

\* C1: every check whose store and alert calls succeed has inserted exactly
\* one price_history row for the item, with a null price iff the fetch
\* obtained no price, however the fetch ended.
C1_OneHistoryRowPerCheck ==
  (CheckDone /\ StoreCallsOk /\ ListedFetchOutcome) =>
    /\ Len(history) = 1
    /\ (history[1] = NoPrice) <=> (price = NoPrice)

\* C2: at the head of the attempt loop and once get_price_with_context has
\* returned or raised, no context create_context_for gave it, and no page
\* of one, is open (a context whose page is "none" here is one
\* create_context_for raised on).
C2_SessionsClosed ==
  (pc \in {"gp_loop", "gp_ret", "handle", "for"}) =>
    \A i \in 1..Len(sessions) :
      \/ sessions[i].page = "none"
      \/ sessions[i].ctx = "closed" /\ sessions[i].page # "open"

\* The proxied call raised a recognized proxy or network error and the
\* fallback call on the direct browser failed too.
ProxyAndFallbackFailed ==
  /\ Len(calls) = 2
  /\ calls[1].mode = "proxied"
  /\ calls[1].ret = Raised("PENet")
  /\ calls[2].mode = "fallback"
  /\ calls[2].ret \in {Returned(NoPrice), Raised("PENet")}

\* C3: a croma check whose proxied fetch raised a recognized proxy or
\* network error and whose direct fallback failed too ends like any failed
\* check: one null price_history row and one "Could not extract price" alert.
C3_FallbackFailureIsNoPrice ==
  (CheckDone /\ ProxyAndFallbackFailed /\ StoreCallsOk) =>
    /\ history = <<NoPrice>>
    /\ alerts = <<"no_price">>

\* C4: the store's notified flag differs from the one the run fetched only
\* by an update to true, made in a check that got a price strictly below
\* the target (0 for none) for an item not notified; nothing writes false.
C4_NotifiedOnlyOnDrop ==
  /\ Has(updates, "notified") =>
       /\ item.notified = "no"
       /\ row.notified
       /\ StrictlyBelowTarget
  /\ item.notified = "yes" => row.notified
  /\ (item.notified = "no" /\ row.notified) => Has(updates, "notified")
  /\ item.notified = "unread" => (~row.notified /\ ~Has(updates, "notified"))

C4_Witness ==
  /\ CheckDone
  /\ Has(updates, "notified")
  /\ item.notified = "no"
  /\ row.notified

\* C5 as stated: a check makes at most one update of the tracked item.
C5_AtMostOneUpdate == Len(updates) <= 1

\* C5, amended: a check makes at most two updates of the tracked item, the
\* first of last_price and last_checked_at, the second of notified alone
\* and only in a check that found the price below target for an item not
\* notified; every other check makes at most one.
C5_AtMostTwoUpdates ==
  /\ updates \in {<<>>, <<"price">>, <<"price", "notified">>}
  /\ Len(updates) = 2 => (item.notified = "no" /\ StrictlyBelowTarget)

C5_Witness == CheckDone /\ Len(updates) = 2

\* C6: an exception in one item's check yields one alert for it and the
\* loop goes on: when the run is over (the browser was launched), the
\* checks ended are those of items 1..n_items, in order, once each.
C6_ErrorDoesNotHaltRun ==
  /\ Len(caught) <= 1
  /\ CountOf(alerts, "critical") = Len(caught)
  /\ \A i \in 1..Len(checked) : checked[i].idx = i
  /\ (pc = "done" /\ browser_default # "none") => Len(checked) = n_items

C6_Witness ==
  /\ pc = "done"
  /\ Len(checked) = 2
  /\ checked[1].raised
  /\ ~checked[2].raised

\* C7: the run ends, and when it has ended every browser it launched has
\* been closed.
C7_TerminatesBrowsersClosed ==
  <>[](pc = "done" /\ browser_default # "open" /\ browser_proxy # "open")

C7_Witness ==
  /\ pc = "done"
  /\ browser_default = "closed"
  /\ browser_proxy = "closed"
  /\ \E i \in 1..Len(checked) : checked[i].raised

\* The contexts of the call in progress: create_context_for returned one
\* for each attempt (a fallback call runs on the other browser than the
\* proxied call before it).
ContextsCreated ==
  LET mine == SelectSeq(sessions, LAMBDA x : x.browser = chan)
  IN  Len(mine) = attempt /\ \A i \in 1..Len(mine) : mine[i].page # "none"

\* C8: a call of get_price_with_context none of whose attempts met a
\* recognized proxy or network error (each got its context, and failed
\* later if it failed) does not raise: it returns, after at most 2 attempts.
C8_GenericFailureReturnsNone ==
  ( /\ pc = "gp_ret"
    /\ ContextsCreated
    /\ \A i \in 1..Len(outcomes) : outcomes[i].kind # "neterr" ) =>
    /\ ret.kind = "value"
    /\ attempt <= 2

\* Both attempts of the call that ended the fetch found no price on the page.
BothAttemptsNotFound ==
  /\ Len(outcomes) = 2
  /\ outcomes[1].kind = "notfound"
  /\ outcomes[2].kind = "notfound"

\* C9 as stated: after two attempts that found no price the check ends with
\* no price, one null price_history row, no update and one alert.
C9_TwoFailuresOneNullRow ==
  (CheckDone /\ BothAttemptsNotFound) =>
    /\ price = NoPrice
    /\ history = <<NoPrice>>
    /\ updates = <<>>
    /\ Len(alerts) = 1

\* C9, amended: after two attempts that found no price the check ends with
\* no price and no update; when the insert succeeds, with one null
\* price_history row and one alert; when it raises (the store fails, the
\* item has no id), with no row and a second, critical alert.
C9_TwoFailuresNullRowIfInsertOk ==
  (CheckDone /\ BothAttemptsNotFound) =>
    /\ price = NoPrice
    /\ updates = <<>>
    /\ row = NoRow
    /\ IF caught = <<>>
       THEN history = <<NoPrice>> /\ alerts = <<"no_price">>
       ELSE history = <<>> /\ alerts = <<"no_price", "critical">>

C9_Witness ==
  /\ CheckDone
  /\ BothAttemptsNotFound
  /\ caught = <<>>
  /\ history = <<NoPrice>>

\* C10: every attempt that failed wrote one debug file, and no file name
\* was written for two URLs.
C10_OneArtifactPerFailureNoClash ==
  /\ \A i \in 1..Len(outcomes) :
       outcomes[i].kind # "found" => outcomes[i].dumps = 1
  /\ \A a \in debug_dir, b \in debug_dir : a[1] = b[1] => a[2] = b[2]

\* Whether text holds pat somewhere.
Contains(text, pat) == \E i \in 1..Len(text) : MatchAt(text, pat, i)

\* The price the check gets from Page44_999.
Price44_999 == RawPrice(extract_price(Amazon, Page44_999, TRUE))

\* The check that just ended was of an amazon item with target 50000, not
\* notified, read Page44_999, and no store call raised.
Scenario44_999 ==
  /\ CheckDone
  /\ item.site = Amazon
  /\ item.target_price = 50000
  /\ item.notified = "no"
  /\ price = Price44_999
  /\ caught = <<>>

JsYields(a) == a.page /\ a.html.js # JsRaises /\ ~Falsy(a.html.js)

\* C12: for croma with a page, a value of the in-page script is what
\* extract_price returns, whatever the regular expressions and selectors
\* would find; the regular expressions run only when the script gave
\* nothing or raised, the selectors only when the regular expressions also
\* found nothing.
C12_CromaTierOrder ==
  (pc = "extracted" /\ arg.site = Croma) =>
    /\ JsYields(arg) =>
         (result.price_raw = arg.html.js /\ result.tiers = <<"js">>)
    /\ Has(result.tiers, "regex") => ~JsYields(arg)
    /\ Has(result.tiers, "dom") =>
         /\ ~JsYields(arg)
         /\ arg.html.rx = NoneTok
         /\ arg.html.script_rx = NoneTok

C12_Witness ==
  /\ pc = "extracted"
  /\ arg.site = Croma
  /\ JsYields(arg)
  /\ arg.html.rx = <<"2">>
  /\ arg.html.dom
  /\ arg.html.dom_value = <<"4">>
  /\ result.price_raw = <<"1">>

\* C13: whatever the token, normalize_price_string returns None or a clean
\* number text: not empty, of digits and at most one period, with a digit,
\* which float() takes.
C13_NormalizeCleanOrNone ==
  pc = "normalized" =>
    \/ result = NoneTok
    \/ /\ result # <<>>
       /\ \A i \in 1..Len(result) : result[i] \in Digits \cup {"."}
       /\ Count(result, ".") <= 1
       /\ \E i \in 1..Len(result) : result[i] \in Digits
       /\ FloatOk(result)

\* C14: normalize_price_string gives "44999" for the rupee sign and
\* "44,999", "44999.00" for "44,999.00", None for "" and for None; and for
\* a marker or none, digits with commas, a ".dd" or none, the digits
\* without the commas and the fraction as it was.
C14_NormalizeStripsMarkersAndCommas ==
  pc = "normalized" =>
    /\ arg = <<RUPEE, "4", "4", ",", "9", "9", "9">> =>
         result = <<"4", "4", "9", "9", "9">>
    /\ arg = <<"4", "4", ",", "9", "9", "9", ".", "0", "0">> =>
         result = <<"4", "4", "9", "9", "9", ".", "0", "0">>
    /\ arg = <<>> => result = NoneTok
    /\ arg = NoneTok => result = NoneTok
    /\ \A m \in Markers, g \in Groups, f \in Fractions :
         arg = m \o g \o f => result = Keep(g, Digits) \o f

C14_Witness ==
  /\ pc = "normalized"
  /\ arg = <<"4", "4", ",", "9", "9", "9", ".", "0", "0">>
  /\ result = <<"4", "4", "9", "9", "9", ".", "0", "0">>

\* C15: a context is made on the proxied browser only for a croma item, and
\* only when the proxy settings are there and the proxied browser was
\* launched; every other item's contexts, and all contexts of a run with no
\* proxy settings, are on the direct browser.
C15_ProxyOnlyForCroma ==
  /\ browser_proxy # "none" => apify_proxy
  /\ \A i \in 1..Len(sessions) :
       /\ sessions[i].browser \in {"proxy", "default"}
       /\ sessions[i].browser = "proxy" =>
            /\ item.site = Croma
            /\ apify_proxy
            /\ browser_proxy = "open"

C15_Witness ==
  /\ pc = "gp_try"
  /\ item.site = Croma
  /\ Last(sessions).browser = "proxy"
  /\ Len(checked) = 1

\* The calls of get_price_with_context the check has made, the one in
\* progress counted.
Invocations ==
  Len(calls) + (IF pc \in {"gp_loop", "gp_page", "gp_try", "gp_ret"} THEN 1 ELSE 0)

\* C16: a call of get_price_with_context makes at most 2 attempts, each
\* with one new context; a check calls it at most twice, the second time
\* only as the fallback of a proxied call; so a check makes at most 4
\* contexts, and at most 2 when its first call is on the direct browser.
C16_AtMostFourSessions ==
  /\ attempt <= 2
  /\ Len(SelectSeq(sessions, LAMBDA x : x.browser = chan)) <= attempt
  /\ pc \in {"gp_page", "gp_try"} =>
       Len(SelectSeq(sessions, LAMBDA x : x.browser = chan)) = attempt
  /\ Invocations <= 2
  /\ Invocations = 2 => (mode = "fallback" /\ calls[1].mode = "proxied")
  /\ Len(sessions) <= 4
  /\ mode = "direct" => Len(sessions) <= 2

C16_Witness ==
  /\ CheckDone
  /\ Len(sessions) = 4
  /\ Len(calls) = 2

\* The contexts made on the proxied browser.
ProxyCount(ss) == Len(SelectSeq(ss, LAMBDA x : x.browser = "proxy"))

\* What C17 asks of a step.
C17_Step ==
  /\ (pc = "gp_try" /\ mode = "proxied" /\ ret' = Raised("PENet")) =>
       pc' = "gp_ret"
  /\ (pc = "gp_ret" /\ mode = "proxied" /\ ret = Raised("PENet")) =>
       /\ pc' = "gp_loop"
       /\ mode' = "fallback"
       /\ chan' = "default"
       /\ attempt' = 0
       /\ idx' = idx
       /\ item' = item
       /\ sessions' = sessions
  /\ (mode = "fallback" /\ pc # "for") =>
       /\ mode' = "fallback"
       /\ chan' = "default"
       /\ idx' = idx
       /\ ProxyCount(sessions') = ProxyCount(sessions)
  /\ (mode = "fallback" /\ pc = "gp_loop" /\ attempt < 2) =>
       (attempt' = attempt + 1 /\ pc' # "handle")

\* C17: a recognized proxy or network error in an attempt of the proxied
\* call ends that call at once (no further attempt, no other context on the
\* proxied browser for the item); the next context is made on the direct
\* browser for the same item, by a call whose attempt starts at 0 and runs
\* to 2.
C17_NetErrorFallsBackAtOnce == [][C17_Step]_vars

C17_Witness ==
  /\ pc = "gp_try"
  /\ mode = "fallback"
  /\ attempt = 2
  /\ calls[1].ret = Raised("PENet")
  /\ ProxyCount(sessions) = 2
  /\ Last(sessions).browser = "default"

\* C18: at most one context is open at any time, on both browsers taken
\* together, the contexts earlier checks of the run left open counted.
C18_AtMostOneSessionOpen ==
  OpenContexts(sessions) + (IF leaked THEN 1 ELSE 0) <= 1

\* C19: a check whose fetch returned None writes nothing to the item's
\* tracked_items row: no update is executed, and last_price,
\* last_checked_at and notified are as they were.
C19_NoPriceLeavesItemUnchanged ==
  (pc \in {"handle", "for"} /\ ret = Returned(NoPrice)) =>
    /\ updates = <<>>
    /\ row = NoRow

C19_Witness ==
  /\ CheckDone
  /\ ret = Returned(NoPrice)
  /\ history = <<NoPrice>>
  /\ alerts = <<"no_price">>

\* The notified a later run's fetch reads for the item: the store's.
StoredNotified == IF row.notified THEN "yes" ELSE "no"

\* C20: a check that sent a price-drop alert leaves notified = true in the
\* store, whatever store call raised in it, so that no later check of the
\* item (which reads the store's flag) sends a second one.
C20_OneDropAlertPerItem ==
  (CheckDone /\ Has(alerts, "price_drop")) =>
    /\ CountOf(alerts, "price_drop") = 1
    /\ row.notified
    /\ ~ShouldNotify(StoredNotified)

\* C21: in the check of a croma item with a proxied browser, a context is
\* made on the direct browser only after the proxied call raised a
\* recognized proxy or network error; not when it returned a price or None,
\* and not when it failed in any other way.
C21_DirectOnlyAfterNetError ==
  ( /\ item.site = Croma
    /\ browser_proxy # "none"
    /\ \E i \in 1..Len(sessions) : sessions[i].browser = "default" ) =>
    /\ Len(calls) >= 1
    /\ calls[1].mode = "proxied"
    /\ calls[1].ret = Raised("PENet")

====
